---- MODULE Spec2Model ----
(***************************************************************************)
(* mesos.cli.mesos_file.File: a seekable, chunk-paged view of a remote     *)
(* file.  The handle keeps a cursor (_offset) and a scratch request        *)
(* (_params); every fetch sends _params to the paging endpoint.  Strings   *)
(* are sequences of one-character strings.                                 *)
(***************************************************************************)
EXTENDS Integers, Sequences, FiniteSets, TLC

VARIABLES content, present, chunk_size, offset, params, op, cmp

vars == <<content, present, chunk_size, offset, params, op, cmp>>

\* the remote file and the handle that reads it
file == <<content, present, chunk_size, offset, params, op>>

-----------------------------------------------------------------------------
(* Bounds of the model *)

MaxLen == 3
MaxChunk == 2
MaxSize == 3
MaxDelta == 1

NL == "\n"
Chars == {"a", NL}

MinOff == 0 - MaxDelta
MaxOff == MaxLen + MaxDelta

RECURSIVE SeqsUpTo(_)
SeqsUpTo(n) ==
    IF n = 0 THEN {<<>>}
    ELSE LET S == SeqsUpTo(n - 1)
         IN  S \cup {Append(s, c) : s \in {t \in S : Len(t) = n - 1}, c \in Chars}

-----------------------------------------------------------------------------
(* Python values *)

\* an optional argument: None is the empty tuple, a given value n is <<n>>
None == <<>>
Some(n) == <<n>>

\* truth value of an optional integer (`if size`, `not size`)
Truthy(size) == size # None /\ size[1] # 0

Min(a, b) == IF a < b THEN a ELSE b
Max(a, b) == IF a > b THEN a ELSE b

\* s[lo:hi] for 0-based lo, hi clipped to the string
Slice(s, lo, hi) ==
    LET l == Max(lo, 0)
        h == Min(hi, Len(s))
    IN  IF h <= l THEN <<>> ELSE SubSeq(s, l + 1, h)

\* ''.join(chunks)
RECURSIVE Join(_)
Join(chunks) ==
    IF chunks = <<>> THEN <<>> ELSE Head(chunks) \o Join(Tail(chunks))

\* s.split("\n"): the pieces between terminators, one more than terminators
RECURSIVE Split(_)
Split(s) ==
    IF \A i \in 1..Len(s) : s[i] # NL THEN <<s>>
    ELSE LET k == CHOOSE i \in 1..Len(s) :
                      s[i] = NL /\ \A j \in 1..(i - 1) : s[j] # NL
         IN  <<SubSeq(s, 1, k - 1)>> \o Split(SubSeq(s, k + 1, Len(s)))

\* reversed(list)
Reverse(l) == [i \in 1..Len(l) |-> l[Len(l) + 1 - i]]

\* itertools.islice(l, 0, len(l) - 1): all but the last
Front(l) == SubSeq(l, 1, Len(l) - 1)

\* xrange(a, stop, step) for step < 0
RECURSIVE xrange(_, _, _)
xrange(a, stop, step) ==
    IF a > stop THEN <<a>> \o xrange(a + step, stop, step) ELSE <<>>

-----------------------------------------------------------------------------
(* The paging endpoint (collaborator): /files/read.json *)

\* the data of a response: the bytes of [off, off + length) that exist;
\* a negative offset is outside the endpoint's contract and gives an
\* empty or a short chunk
ReadData(off, length) ==
    IF off >= 0 THEN {Slice(content, off, off + length)}
    ELSE {<<>>, Slice(content, 0, off + length)}

\* the "offset" field of a response: the file's total size at fetch time
RespOffset == Len(content)

\* a fetch that never looks at the status of the response
NotFound_ignored == FALSE

\* resp.status_code == 404
NotFound == ~present

-----------------------------------------------------------------------------
(* The handle *)

SEEK_SET == "SET"
SEEK_CUR == "CUR"
SEEK_END == "END"
Whences == {SEEK_SET, SEEK_CUR, SEEK_END}

\* a size that measures the data of the response instead of reading its
\* "offset" field
size_from_data ==
    Len(Slice(content, params.offset, params.offset + params.length))

\* File.size: the "offset" field of a fetch
size == RespOffset

\* a seek whose CUR mode subtracts the delta
seek_cur_subtracts(cur, delta, whence) ==
    IF whence = SEEK_SET THEN 0 + delta
    ELSE IF whence = SEEK_CUR THEN cur - delta
    ELSE size + delta

\* a seek whose END mode measures from the cursor
seek_end_from_cursor(cur, delta, whence) ==
    IF whence = SEEK_SET THEN 0 + delta
    ELSE cur + delta

\* File.seek: the new cursor
seek(cur, delta, whence) ==
    IF whence = SEEK_SET THEN 0 + delta
    ELSE IF whence = SEEK_CUR THEN cur + delta
    ELSE size + delta

\* File.tell
tell == offset

\* a _length that asks for all that remains of the requested size
_length_unclamped(start, sz) ==
    IF Truthy(sz) THEN sz[1] - (tell - start) ELSE chunk_size

\* File._length: the length of the next forward request
_length(start, sz) ==
    IF Truthy(sz) /\ tell - start + chunk_size > sz[1]
    THEN sz[1] - (tell - start)
    ELSE chunk_size

\* a _get_chunk that leaves the request's offset as the last fetch set it
_get_chunk_params_stale(loc, sz) ==
    [offset |-> params.offset,
     length |-> IF sz = None THEN chunk_size ELSE sz[1]]

\* File._get_chunk: the request it writes into _params
_get_chunk_params(loc, sz) ==
    [offset |-> loc, length |-> IF sz = None THEN chunk_size ELSE sz[1]]

\* a _get_chunk that advances the cursor by a whole chunk_size
_get_chunk_tell_by_chunk(loc, data) ==
    seek(seek(offset, loc, SEEK_SET), chunk_size, SEEK_CUR)

\* a _get_chunk that leaves the cursor at the chunk's offset
_get_chunk_tell_no_advance(loc, data) ==
    seek(offset, loc, SEEK_SET)

\* a _get_chunk whose second seek is absolute
_get_chunk_tell_set(loc, data) ==
    seek(seek(offset, loc, SEEK_SET), Len(data), SEEK_SET)

\* File._get_chunk: the cursor after seek(loc, SET) and seek(len(data), CUR)
_get_chunk_tell(loc, data) ==
    seek(seek(offset, loc, SEEK_SET), Len(data), SEEK_CUR)

\* File._read: pre, the test of the empty chunk
pre(x) == x = <<>>

\* a post that never reports the requested size as consumed
post_never(start, sz, cur) == FALSE

\* File._read: post, the test that the requested size has been consumed
post(start, sz, cur) == Truthy(sz) /\ (cur - start) >= sz[1]

\* util.iter_until(fn, pre, post) on the element x that fn returned: end
\* before yielding x when pre holds, end after yielding x when post holds
iter_until(x, start, sz, cur) ==
    IF pre(x) THEN "end"
    ELSE IF post(start, sz, cur) THEN "yield_end"
    ELSE "yield"

\* a line split that forgets the carry-over buffer
_readlines_split_no_carry(last, blob) == Split(blob)

\* File._readlines: the pieces of last + blob; all but the last are lines
_readlines_split(last, blob) == Split(last \o blob)

\* File._readlines_reverse: the pieces of blob + buf; all but the first
\* are lines, yielded last to first
_readlines_reverse_split(blob, buf) == Split(blob \o buf)

\* File._read_reverse: the target size (`if not size: size = fsize`)
_read_reverse_size(sz, fsize) == IF ~Truthy(sz) THEN fsize ELSE sz[1]

\* File._read_reverse: the offsets of the aligned chunks
_read_reverse_blocks(fsize, sz) ==
    xrange(fsize - chunk_size, fsize - sz, 0 - chunk_size)

\* File._read_reverse: the length of the final boundary chunk
_read_reverse_last(sz) == sz % chunk_size

\* File.__reversed__: drop the first line when it is empty
__reversed__(lines) ==
    IF lines # <<>> /\ lines[1] = <<>> THEN Tail(lines) ELSE lines

\* no pair of handles is being compared
NoCmp == [st |-> "none"]

Idle ==
    [name |-> "idle", st |-> "idle", size |-> None, delta |-> 0,
     whence |-> SEEK_SET, start |-> 0, c0 |-> <<>>, fsize |-> 0,
     blocks |-> <<>>, chunks |-> <<>>, lines |-> <<>>, out |-> <<>>,
     buf |-> <<>>, ret |-> 0, retb |-> FALSE, raised |-> FALSE,
     pulls |-> 0, nreq |-> 0, sent |-> <<>>]

\* a call that has just been entered
Enter(name) ==
    [Idle EXCEPT !.name = name, !.st = "run", !.start = offset, !.c0 = content]

SizeArgs == {None} \cup {Some(n) : n \in 0..MaxSize}

-----------------------------------------------------------------------------

Init ==
    /\ present \in BOOLEAN
    /\ content \in (IF present THEN SeqsUpTo(MaxLen) ELSE {<<>>})
    /\ chunk_size \in 1..MaxChunk
    /\ offset = 0
    /\ params = [offset |-> -1, length |-> chunk_size]
    /\ op = Idle
    /\ cmp = NoCmp

\* the remote file grows by one byte
RemoteAppend ==
    /\ present
    /\ op.st # "done"
    /\ Len(content) < MaxLen
    /\ \E c \in Chars : content' = Append(content, c)
    /\ UNCHANGED <<cmp, present, chunk_size, offset, params, op>>

\* an exists that lets FileDNE through to its caller
exists_uncaught ==
    /\ op.st = "idle"
    /\ op' = [Enter("exists") EXCEPT !.st = "done", !.raised = NotFound,
                                     !.retb = TRUE, !.nreq = 1,
                                     !.sent = <<params>>]
    /\ UNCHANGED <<cmp, content, present, chunk_size, offset, params>>

\* File.exists
exists ==
    /\ op.st = "idle"
    /\ op' = [Enter("exists") EXCEPT !.st = "done", !.retb = ~NotFound,
                                     !.nreq = 1, !.sent = <<params>>]
    /\ UNCHANGED <<cmp, content, present, chunk_size, offset, params>>

\* the size property read by a caller
size_query ==
    /\ op.st = "idle"
    /\ op' = [Enter("size") EXCEPT !.st = "done", !.raised = NotFound,
                                   !.ret = IF NotFound THEN 0 ELSE size,
                                   !.nreq = 1, !.sent = <<params>>]
    /\ UNCHANGED <<cmp, content, present, chunk_size, offset, params>>

\* File.seek(delta, whence)
seek_call ==
    /\ op.st = "idle"
    /\ \E delta \in (0 - MaxDelta)..MaxDelta, whence \in Whences :
          LET fails == whence = SEEK_END /\ NotFound
              target == seek(offset, delta, whence)
          IN  /\ fails \/ target \in MinOff..MaxOff
              /\ offset' = IF fails THEN offset ELSE target
              /\ op' = [Enter("seek") EXCEPT
                           !.st = "done", !.delta = delta, !.whence = whence,
                           !.raised = fails,
                           !.nreq = IF whence = SEEK_END THEN 1 ELSE 0,
                           !.sent = IF whence = SEEK_END THEN <<params>> ELSE <<>>]
    /\ UNCHANGED <<cmp, content, present, chunk_size, params>>

\* File.tell()
tell_call ==
    /\ op.st = "idle"
    /\ op' = [Enter("tell") EXCEPT !.st = "done", !.ret = tell]
    /\ UNCHANGED <<cmp, content, present, chunk_size, offset, params>>

ForwardOps == {"read", "readline", "readlines", "__iter__"}
ReverseOps == {"_read_reverse", "__reversed__"}

\* a readline that returns only once a second line is complete
readline_returns_late(blob_lines) == Len(blob_lines) > 2

\* File.readline: the first line that File._readlines yields is returned
readline_returns(blob_lines) == Len(blob_lines) > 1

\* File.read(size), File.readline(size), File.readlines(size) and iter(file)
\* are entered; the generator File._read takes start = tell() and fetches
\* nothing yet
read_call ==
    /\ op.st = "idle"
    /\ \E name \in ForwardOps, sz \in SizeArgs :
          /\ name = "__iter__" => sz = None
          /\ op' = [Enter(name) EXCEPT !.size = sz]
    /\ UNCHANGED <<cmp, content, present, chunk_size, offset, params>>

\* the state of a forward call after File._read fetched the chunk data:
\* iter_until's stop rules, the join of File.read and the line
\* reconstruction of File._readlines / File.readline
ForwardAfter(req, data, cur) ==
    LET blob_lines == _readlines_split(op.buf, data)
        got == [op EXCEPT !.pulls = @ + 1, !.nreq = @ + 1, !.sent = <<req>>]
        step == iter_until(data, op.start, op.size, cur)
    IN  IF step = "end" THEN [got EXCEPT !.st = "done"]
        ELSE LET stop == step = "yield_end"
                 chunks == Append(op.chunks, data)
             IN  IF op.name = "read"
                 THEN [got EXCEPT !.chunks = chunks, !.out = Join(chunks),
                                  !.st = IF stop THEN "done" ELSE "run"]
                 ELSE IF op.name \in {"readlines", "__iter__"}
                 THEN [got EXCEPT !.chunks = chunks,
                                  !.lines = @ \o Front(blob_lines),
                                  !.buf = blob_lines[Len(blob_lines)],
                                  !.st = IF stop THEN "done" ELSE "run"]
                 ELSE IF readline_returns(blob_lines)
                 THEN [got EXCEPT !.chunks = chunks,
                                  !.lines = <<blob_lines[1]>>,
                                  !.out = Some(blob_lines[1]),
                                  !.buf = blob_lines[Len(blob_lines)],
                                  !.st = "done"]
                 ELSE [got EXCEPT !.chunks = chunks,
                                  !.buf = blob_lines[Len(blob_lines)],
                                  !.st = IF stop THEN "done" ELSE "run"]

\* one pull of File._read: File._get_chunk(tell(), _length(start, size))
read_pull ==
    /\ op.st = "run"
    /\ op.name \in ForwardOps
    /\ LET loc == tell
           req == _get_chunk_params(loc, Some(_length(op.start, op.size)))
       IN  /\ params' = req
           /\ IF NotFound
              THEN /\ offset' = seek(offset, loc, SEEK_SET)
                   /\ op' = [op EXCEPT !.st = "done", !.raised = TRUE,
                                       !.pulls = @ + 1, !.nreq = @ + 1,
                                       !.sent = <<req>>]
              ELSE \E data \in ReadData(req.offset, req.length) :
                      /\ offset' = _get_chunk_tell(loc, data)
                      /\ op' = ForwardAfter(req, data, offset')
    /\ UNCHANGED <<cmp, content, present, chunk_size>>

\* File._read_reverse(size) and reversed(file) are entered
reverse_call ==
    /\ op.st = "idle"
    /\ \/ \E sz \in SizeArgs : op' = [Enter("_read_reverse") EXCEPT !.size = sz]
       \/ op' = Enter("__reversed__")
    /\ UNCHANGED <<cmp, content, present, chunk_size, offset, params>>

\* one pull of File._read_reverse; the first pull reads File.size and lays
\* out the aligned blocks; the pull that finds no block left fetches the
\* boundary chunk and ends the generator (File._readlines_reverse then
\* yields its buffer)
reverse_pull ==
    /\ op.st = "run"
    /\ op.name \in ReverseOps
    /\ LET first == op.pulls = 0
           fsize == IF first THEN size ELSE op.fsize
           sz == IF first THEN _read_reverse_size(op.size, fsize) ELSE op.size[1]
           blocks == IF first THEN _read_reverse_blocks(fsize, sz) ELSE op.blocks
           final == blocks = <<>>
           loc == IF final THEN fsize - sz ELSE Head(blocks)
           req == _get_chunk_params(
                      loc, IF final THEN Some(_read_reverse_last(sz)) ELSE None)
           asked == IF first THEN <<params, req>> ELSE <<req>>
       IN  IF NotFound
           THEN /\ op' = [op EXCEPT !.st = "done", !.raised = TRUE,
                                    !.pulls = @ + 1, !.nreq = @ + 1,
                                    !.sent = <<params>>]
                /\ UNCHANGED <<offset, params>>
           ELSE \E data \in ReadData(req.offset, req.length) :
                   LET blob_lines == _readlines_reverse_split(data, op.buf)
                       yielded == op.lines \o Front(Reverse(blob_lines))
                       lines == IF final THEN Append(yielded, blob_lines[1])
                                ELSE yielded
                   IN  /\ params' = req
                       /\ offset' = _get_chunk_tell(loc, data)
                       /\ op' = [op EXCEPT
                             !.pulls = @ + 1, !.nreq = @ + Len(asked),
                             !.sent = asked,
                             !.fsize = fsize, !.size = Some(sz),
                             !.blocks = IF final THEN <<>> ELSE Tail(blocks),
                             !.chunks = Append(@, data),
                             !.buf = IF op.name = "__reversed__"
                                     THEN blob_lines[1] ELSE <<>>,
                             !.lines = IF op.name = "__reversed__"
                                       THEN lines ELSE <<>>,
                             !.out = IF op.name = "__reversed__"
                                     THEN __reversed__(lines) ELSE <<>>,
                             !.st = IF final THEN "done" ELSE "run"]
    /\ UNCHANGED <<cmp, content, present, chunk_size>>

\* the caller takes the result; the handle is ready for the next call
Return ==
    /\ op.st = "done"
    /\ op' = Idle
    /\ UNCHANGED <<cmp, content, present, chunk_size, offset, params>>

Next ==
    \/ RemoteAppend
    \/ exists
    \/ size_query
    \/ seek_call
    \/ tell_call
    \/ read_call
    \/ read_pull
    \/ reverse_call
    \/ reverse_pull
    \/ Return

Spec == Init /\ [][Next]_vars

-----------------------------------------------------------------------------
(* File identity: key, equality and hash of two handles *)

MaxKeyLen == 2

RECURSIVE StringsOver(_, _)
StringsOver(chars, n) ==
    IF n = 0 THEN {<<>>}
    ELSE LET S == StringsOver(chars, n - 1)
         IN  S \cup {Append(t, c) : t \in {u \in S : Len(u) = n - 1}, c \in chars}

\* host.key() of the host collaborator
HostKeys == StringsOver({"h", ":"}, MaxKeyLen) \ {<<>>}

\* the path argument
Paths == StringsOver({"p", ":", "/"}, MaxKeyLen) \ {<<>>}

\* the task argument: None, or a task with a sandbox directory
Tasks == {None, Some(<<"d">>)}

\* os.path.join(a, b)
os_path_join(a, b) ==
    IF b # <<>> /\ b[1] = "/" THEN b
    ELSE IF a = <<>> \/ a[Len(a)] = "/" THEN a \o b
    ELSE a \o <<"/">> \o b

\* File.__init__: the handles that can be constructed
Handles == [host : HostKeys, task : Tasks, path : Paths]

\* File.__init__: self._host_path
_host_path(f) ==
    IF f.task = None THEN f.path ELSE os_path_join(f.task[1], f.path)

\* File.key
key(f) == f.host \o <<":">> \o _host_path(f)

\* hash(str): some function of the string alone
hash(k) == Len(k) + Cardinality({i \in 1..Len(k) : k[i] = ":"})

\* File.__eq__
__eq__(x, y) == key(x) = key(y)

\* File.__hash__
__hash__(f) == hash(key(f))

InitKey ==
    /\ present = TRUE
    /\ content = <<>>
    /\ chunk_size = 1
    /\ offset = 0
    /\ params = [offset |-> -1, length |-> chunk_size]
    /\ op = Idle
    /\ cmp = NoCmp

\* two handles are constructed
construct ==
    /\ cmp.st = "none"
    /\ \E x, y \in Handles : cmp' = [st |-> "built", x |-> x, y |-> y]
    /\ UNCHANGED file

\* x == y, hash(x) and hash(y) are evaluated
compare ==
    /\ cmp.st = "built"
    /\ cmp' = [st |-> "compared", x |-> cmp.x, y |-> cmp.y,
               eq |-> __eq__(cmp.x, cmp.y),
               hx |-> __hash__(cmp.x), hy |-> __hash__(cmp.y)]
    /\ UNCHANGED file

\* the two handles go out of scope
discard ==
    /\ cmp.st = "compared"
    /\ cmp' = NoCmp
    /\ UNCHANGED file

NextKey == construct \/ compare \/ discard

SpecKey == InitKey /\ [][NextKey]_vars

-----------------------------------------------------------------------------
(* Vocabulary of the properties *)

\* the remote file did not change since the current call was entered
Static == op.c0 = content

\* the current call has returned normally
Returned(name) == op.name = name /\ op.st = "done" /\ ~op.raised

NLPos(c) == {i \in 1..Len(c) : c[i] = NL}

KthNL(c, k) ==
    CHOOSE i \in NLPos(c) : Cardinality({j \in NLPos(c) : j <= i}) = k

\* the segments of c that are followed by a line terminator, in order
TerminatedSegments(c) ==
    [k \in 1..Cardinality(NLPos(c)) |->
        SubSeq(c, (IF k = 1 THEN 0 ELSE KthNL(c, k - 1)) + 1, KthNL(c, k) - 1)]

\* the point a seek mode measures from
SeekBase(whence, before) ==
    IF whence = SEEK_SET THEN 0
    ELSE IF whence = SEEK_CUR THEN before
    ELSE Len(content)

-----------------------------------------------------------------------------
\* C1: on a static file, for a target size with 0 < size <= fsize, the chunks
\* yielded by the reverse reader, concatenated in the reverse of their yield
\* order, are exactly the bytes [fsize - size, fsize) of the file.
C1_ReverseChunksCoverRange ==
    (Returned("_read_reverse") /\ Static
        /\ 0 < op.size[1] /\ op.size[1] <= op.fsize)
    => Join(Reverse(op.chunks))
         = Slice(content, op.fsize - op.size[1], op.fsize)

\* C2: on a static content that ends with the terminator, reversed(file) run
\* to exhaustion yields the lines of readlines() from offset 0 in the
\* opposite order, with no extra empty line for the trailing terminator.
C2_ReversedIsReverseOfReadlines ==
    (Returned("__reversed__") /\ Static
        /\ content # <<>> /\ content[Len(content)] = NL)
    => op.out = Reverse(TerminatedSegments(content))

\* C3: on a static content, read() with no size from offset 0 returns the
\* whole content, for every chunk size (so any two chunk sizes agree).
C3_ReadIsChunkSizeIndependent ==
    (Returned("read") /\ Static /\ op.start = 0 /\ op.size = None)
    => op.out = content

C3_Witness ==
    /\ Returned("read") /\ Static /\ op.start = 0 /\ op.size = None
    /\ Len(op.chunks) >= 2
    /\ Len(content) % chunk_size # 0
    /\ \E i, j \in 1..Len(content) : content[i] # content[j]

\* C4: on a static file, after read() with no size tell() is the file's
\* size, and after seek(0) and read(N) with 0 <= N <= size tell() is N.
C4_TellAfterRead ==
    (Returned("read") /\ Static)
    => /\ (op.size = None /\ op.start \in 0..Len(content))
            => tell = Len(content)
       /\ (op.size # None /\ op.start = 0 /\ op.size[1] <= Len(content))
            => tell = op.size[1]

\* C5: on a static file, from a start offset >= 0, read(size) returns
\* content[start : start + size] (never more than size bytes), and read()
\* with no size returns everything from the start offset to end of file.
C5_ReadReturnsAtMostSize ==
    (Returned("read") /\ Static /\ op.start >= 0)
    => /\ op.size # None
            => /\ Len(op.out) <= op.size[1]
               /\ op.out = Slice(content, op.start, op.start + op.size[1])
       /\ op.size = None
            => op.out = Slice(content, op.start, Len(content))

\* C6 (as stated): tell() >= 0 once any seek(delta, mode) has returned.
C6_OffsetNonNegativeAfterSeek ==
    Returned("seek") => tell >= 0

\* C6 (amended): once seek(delta, mode) has returned, tell() >= 0 whenever
\* the mode's reference point (0 for SET, the previous offset for CUR, the
\* remote size for END) plus delta is >= 0; nothing is clamped.
C6_OffsetNonNegativeWhenTargetIs ==
    (Returned("seek") /\ SeekBase(op.whence, op.start) + op.delta >= 0)
    => tell >= 0

C6_Witness ==
    /\ Returned("seek") /\ op.whence = SEEK_CUR
    /\ op.delta < 0 /\ op.start + op.delta >= 0

\* C7: seek(d, SET) leaves tell() = d, seek(d, CUR) leaves tell() = o + d for
\* the previous offset o, seek(d, END) leaves tell() = remote size + d; and
\* tell() returns the offset and changes nothing.
C7_SeekModes ==
    /\ Returned("seek") =>
          /\ op.whence = SEEK_SET => tell = op.delta
          /\ op.whence = SEEK_CUR => tell = op.start + op.delta
          /\ op.whence = SEEK_END => tell = Len(content) + op.delta
    /\ Returned("tell") => (op.ret = offset /\ offset = op.start)

C7_Witness ==
    /\ Returned("seek") /\ op.whence = SEEK_END /\ op.delta = -1
    /\ Len(content) >= 2 /\ op.start # Len(content) - 1
    /\ params.offset # -1

\* C8: on a static content, readlines() from offset 0 yields, in order and
\* without terminators, exactly the segments that are followed by a
\* terminator, for every chunk size; the text after the last terminator is
\* never yielded.
C8_ReadlinesYieldsTerminatedSegments ==
    (Returned("readlines") /\ Static /\ op.start = 0 /\ op.size = None)
    => op.lines = TerminatedSegments(content)

C8_Witness ==
    /\ Returned("readlines") /\ Static /\ op.start = 0 /\ op.size = None
    /\ Len(op.chunks) >= 2
    /\ \E i \in 1..Len(op.lines) : Len(op.lines[i]) > chunk_size

\* C9: exists() returns false when the endpoint reports not-found and true
\* otherwise, and raises in neither case, whatever ran on the handle before.
C9_ExistsNeverRaises ==
    (op.name = "exists" /\ op.st = "done")
    => (~op.raised /\ op.retb = ~NotFound)

C9_Witness ==
    /\ op.name = "exists" /\ op.st = "done"
    /\ NotFound /\ ~op.retb /\ params.offset # -1

\* C10: a size query returns the remote file's current total length,
\* whatever seeks, reads, reverse reads and remote appends came before.
C10_SizeIsLive ==
    Returned("size") => op.ret = Len(content)

C10_Witness ==
    /\ Returned("size") /\ op.ret = MaxLen
    /\ params.offset # -1 /\ params.offset # Len(content)

\* the call in progress is a size query: File.size or seek(delta, END)
SizeQuery ==
    op.name = "size" \/ (op.name = "seek" /\ op.whence = SEEK_END)

\* C11: the request a size query (size, or seek with mode END) sends has
\* length 0 and always the same offset (the -1 a fresh handle sends),
\* whatever ran on the handle before.
C11_SizeRequestIsZeroLengthAtAnchor ==
    (SizeQuery /\ op.st = "done")
    => (op.sent[1].length = 0 /\ op.sent[1].offset = -1)

\* C12: every request issued while reading chunks, forward or reverse,
\* carries a length L with 0 <= L <= chunk_size.
C12_ChunkRequestsWithinChunkSize ==
    (op.name \in ForwardOps \cup ReverseOps)
    => \A i \in 1..Len(op.sent) :
          0 <= op.sent[i].length /\ op.sent[i].length <= chunk_size

C12_Witness ==
    /\ op.name = "read" /\ Truthy(op.size) /\ op.pulls >= 2
    /\ op.size[1] % chunk_size # 0
    /\ op.sent[1].length > 0 /\ op.sent[1].length < chunk_size

\* C13: every request the handle issues has offset >= 0: those of exists(),
\* size and seek(END), of forward reads started at a cursor >= 0, and of
\* reverse reads for every target size.
C13_RequestOffsetsNonNegative ==
    (op.name \in ForwardOps => op.start >= 0)
    => \A i \in 1..Len(op.sent) : op.sent[i].offset >= 0

\* C14: two handles are equal (and hash equal) iff their keys are equal, and
\* equal keys imply the same host key and the same resolved physical path,
\* also for host keys and paths that contain ':'.
C14_KeyEqualityIsIdentity ==
    cmp.st = "compared"
    => /\ cmp.eq <=> key(cmp.x) = key(cmp.y)
       /\ cmp.eq => cmp.hx = cmp.hy
       /\ key(cmp.x) = key(cmp.y)
            => /\ cmp.x.host = cmp.y.host
               /\ _host_path(cmp.x) = _host_path(cmp.y)

\* C15 (as stated): no step of a read operation, forward or reverse, moves
\* the cursor backward.
C15_ReadsNeverMoveCursorBack ==
    [][(read_pull \/ reverse_pull) => offset' >= offset]_vars

\* C15 (amended): no step of a forward read (read, readline, readlines,
\* forward line iteration) moves the cursor backward; the reverse reader
\* sets the cursor to the offset of each chunk it fetches and so may move
\* it backward.
C15_ForwardReadsNeverMoveCursorBack ==
    [][read_pull => offset' >= offset]_vars

C15_Witness ==
    /\ op.name \in ForwardOps /\ op.pulls >= 2
    /\ offset > op.start + chunk_size

\* C16: when the endpoint reports not-found, size, seek(END), every forward
\* read and line iteration and every reverse iteration end in FileDNE and
\* yield no data; exists() alone returns a value instead.
C16_FileDNEPropagates ==
    ~present
    => /\ (op.st = "done" /\ (SizeQuery \/ op.name \in ForwardOps \cup ReverseOps))
            => op.raised
       /\ op.chunks = <<>> /\ op.lines = <<>> /\ op.out = <<>>
       /\ op.name = "exists" => ~op.raised

C16_Witness ==
    /\ ~present /\ op.name = "__iter__" /\ op.st = "done" /\ op.raised
    /\ op.nreq = 1

\* C17: in a forward chunk or line iteration the requests issued never
\* exceed the chunks pulled, and when readline() returns a line the last
\* chunk it fetched is the first one that holds a terminator.
C17_PullDriven ==
    op.name \in ForwardOps
    => /\ op.nreq <= op.pulls
       /\ (op.name = "readline" /\ op.st = "done" /\ op.out # None)
            => /\ op.chunks # <<>>
               /\ \A i \in 1..Len(op.chunks) :
                     (NLPos(op.chunks[i]) # {}) <=> (i = Len(op.chunks))

C17_Witness ==
    /\ Returned("readline") /\ op.out # None
    /\ Len(op.chunks) >= 2 /\ op.nreq = 2
    /\ Len(content) > offset

\* the forward generator of the current call ran to its end (readline
\* leaves it early when it returns a line)
Exhausted ==
    /\ op.name \in ForwardOps /\ op.st = "done" /\ ~op.raised
    /\ op.name = "readline" => op.out = None

\* C18: every chunk the forward reader yields is non-empty, and for every
\* start offset >= 0 and size (absent or >= 0) the iteration ends: right
\* after the chunk that brings the consumed bytes to at least size, and
\* otherwise after the first empty chunk, which is not yielded.  It ends
\* because each pull but the last yields bytes of the file not yielded
\* before, so the pulls number at most the bytes from the start offset to
\* the end of the file plus one, and a pull is possible until it has ended.
C18_ForwardStopRules ==
    (op.name \in ForwardOps /\ op.start >= 0)
    => /\ \A i \in 1..Len(op.chunks) : op.chunks[i] # <<>>
       /\ (op.st = "run" /\ Truthy(op.size)) => tell - op.start < op.size[1]
       /\ Exhausted
            => IF Truthy(op.size) /\ tell - op.start >= op.size[1]
               THEN op.pulls = Len(op.chunks)
               ELSE op.pulls = Len(op.chunks) + 1
       /\ op.st = "run" => (op.pulls = Len(op.chunks) /\ ENABLED read_pull)
       /\ Len(op.chunks) <= tell - op.start
       /\ tell <= Max(Len(content), op.start)
       /\ op.pulls <= Max(Len(content) - op.start, 0) + 1

C18_Witness ==
    /\ Exhausted /\ Static /\ op.name = "readlines"
    /\ Truthy(op.size) /\ tell - op.start >= op.size[1]
    /\ Len(op.chunks) >= 2
    /\ Len(content) > tell

\* C19: while the remote file grows by appends between chunk pulls, the
\* chunks an unbounded forward read has yielded, concatenated in order, are
\* the bytes of the file from the start offset to the cursor: contiguous,
\* none skipped, none repeated.
C19_GrowingFileReadIsContiguous ==
    (op.name = "read" /\ op.size = None /\ op.start >= 0 /\ ~op.raised)
    => /\ op.out = Slice(content, op.start, tell)
       /\ Len(op.out) = tell - op.start
       /\ op.out = Join(op.chunks)

C19_Witness ==
    /\ Returned("read") /\ op.size = None /\ op.start >= 0
    /\ Len(content) > Len(op.c0) + 1
    /\ Len(op.chunks) >= 2
    /\ tell = Len(content) /\ op.start < Len(op.c0)
    /\ Len(op.chunks[1]) < chunk_size

\* C20: when readline() returns a line on a static file, tell() is the
\* start offset plus the total length of the chunks fetched during the call
\* (the end of the last fetched chunk, which is the chunk that holds the
\* line's terminator), not the offset just past the terminator; the next
\* call starts there, past every byte fetched after the terminator.
C20_CursorAfterReadline ==
    (Returned("readline") /\ op.out # None /\ Static /\ op.start >= 0)
    => LET fetched == Join(op.chunks)
           line == op.out[1]
           past == op.start + Len(line) + 1
       IN  /\ tell = op.start + Len(fetched)
           /\ fetched = Slice(content, op.start, tell)
           /\ NLPos(line) = {}
           /\ Slice(content, op.start, past) = line \o <<NL>>
           /\ tell - Len(op.chunks[Len(op.chunks)]) < past /\ past <= tell

C20_Witness ==
    /\ Returned("readline") /\ op.out # None /\ Static /\ op.start >= 0
    /\ tell > op.start + Len(op.out[1]) + 1
    /\ Len(content) > tell

====
